---- MODULE Spec2Model ----
(***************************************************************************)
(* Model of the game core of Tic-Tac-Toe (src/main.py): the GameBoard      *)
(* constructor, select_point and the win check.                            *)
(*                                                                         *)
(* Python objects are modelled by their identity:                          *)
(*   - a Player object is a positive integer (its identity); its name is   *)
(*     PlayerName(p).  Player defines neither __eq__ nor __hash__, so the  *)
(*     dict of the board is keyed by identity, never by name;              *)
(*   - a Point of the board is its position in _points (1..board_size^2);  *)
(*     ForeignPoint is a Point object that is not in any board's list;     *)
(*   - None is Null.                                                       *)
(* The dict _players keeps insertion order: it is a sequence of entries    *)
(* [player, points], points being the list of the Points the player owns.  *)
(* The module-level script (lines 270-332) is modelled too: the listener   *)
(* of the points, the global game_board (the board the variables describe) *)
(* and its copy game_board_backup.                                         *)
(***************************************************************************)
EXTENDS Integers, Sequences, FiniteSets, TLC

\* ------------------------------------------------------------------ bounds
\* Spec builds boards of size 1..MaxBoardSize for 2..MaxPlayers players and
\* makes at most MaxCalls calls of select_point, failed ones included.
\* A board of size 2 is full after 4 calls; with 4 players it is full while
\* every player owns fewer than board_size points.
\* SpecValidate makes at most MaxTries calls: one that takes a point and one
\* that fails.
MaxBoardSize == 2
MaxPlayers == 4
MaxCalls == 4
MaxTries == 2
MaxNum == 3
MaxLen == 4

\* --------------------------------------------------------------- constants
game_board_size == 3
radin == 1
ali == 2

Null == 0
ForeignPoint == 0

\* ft.colors.WHITE, ft.colors.GREEN_200
WHITE == "white"
GREEN_200 == "green200"

\* Player.color of the two players of the script
color(player) == IF player = radin THEN "red" ELSE "blue"

\* the icon_color of a Point() created without one: None, as falsy as ""
NoColor == ""

\* Point(icon_color=...): of the attributes of the button only icon_color
\* is kept (line 75)
Point(icon_color) == [icon_color |-> IF icon_color = NoColor THEN WHITE ELSE icon_color]

point_sample == Point(GREEN_200)

\* Player objects: 1..MaxPlayers have pairwise different names; Twin is a
\* second Player object created with the name of player 1; Stranger is a
\* Player that is passed to no constructor.
Twin == MaxPlayers + 1
Stranger == MaxPlayers + 2
PlayerObjects == 1..(MaxPlayers + 2)

PlayerName(p) == IF p = Twin THEN 1 ELSE p

VARIABLES
    constructed,   \* TRUE once GameBoard.__init__ has returned a board
    board_size,    \* GameBoard._board_size
    players,       \* GameBoard._players, in insertion order
    points,        \* GameBoard._points
    turn,          \* GameBoard._turn
    outcome,       \* result of the last call: the event returned or the failure raised
    moves,         \* history: number of select_point calls on this board that returned an event
    calls,         \* history: number of select_point calls made on this board
    game_board_backup   \* the global of line 332; Null where the script is not run

vars == <<constructed, board_size, players, points, turn, outcome, moves, calls,
          game_board_backup>>

\* the global game_board: the board the variables describe
game_board ==
    [board_size |-> board_size, players |-> players, points |-> points, turn |-> turn]

\* copy.deepcopy of a board: a board of equal fields; its Player and Point
\* objects are copies, which take the places of the originals
deepcopy(board) == board

\* ----------------------------------------------------------- result values
WIN == "WIN"
DRAW == "DRAW"
NOTHING == "NOTHING"
EventStatuses == {WIN, DRAW, NOTHING}

GameBoard_Event(status, player, point) ==
    [status |-> status, player |-> player, point |-> point]

\* An exception carries no event: only the kind of the failure is kept.
Raise(kind) == [status |-> kind, player |-> Null, point |-> ForeignPoint]

SelectFailures == {"UnknownPlayer", "NotYourTurn", "CellNotOnBoard", "CellAlreadyOwned"}
InitFailures == {"AlonePlayer", "NoPlayers", "DuplicatePlayer", "UnknownStartingPlayer"}

\* ------------------------------------------------------------ dict helpers
all_players(dict) == [i \in 1..Len(dict) |-> dict[i].player]

PlayerSet(dict) == {dict[i].player : i \in 1..Len(dict)}

_player_exist(dict, player) == \E i \in 1..Len(dict) : dict[i].player = player

\* list.index(player): position of the first entry holding the player
index(dict, player) ==
    CHOOSE i \in 1..Len(dict) :
        /\ dict[i].player = player
        /\ \A j \in 1..(i - 1) : dict[j].player # player

\* self._players[player]
PlayerPoints(dict, player) == dict[index(dict, player)].points

\* _add_player for each player of the list, in order; the empty dict when
\* one of the calls raises KeyError (the list holds 2 players or more)
RECURSIVE AddPlayers(_, _, _)
AddPlayers(dict, plist, i) ==
    IF i > Len(plist) THEN dict
    ELSE IF _player_exist(dict, plist[i]) THEN <<>>
    ELSE AddPlayers(Append(dict, [player |-> plist[i], points |-> <<>>]), plist, i + 1)

\* the points built by the two loops of __init__, row by row, each a copy
\* of the sample
NewPoints(size, sample) ==
    [k \in 1..(size * size) |->
        [row |-> (k - 1) \div size, column |-> (k - 1) % size, owner |-> Null,
         icon_color |-> sample.icon_color]]

\* get_point(row, column) for an in-range position
PointAt(size, row, column) == row * size + column + 1

\* ---------------------------------------------------------------- win check
RECURSIVE Streak(_, _)
Streak(num_set, num) ==
    IF (num + 1) \in num_set THEN 1 + Streak(num_set, num + 1) ELSE 1

\* _longest_consecutive deciding on the run of the smallest number alone
_longest_consecutive_first_run(nums, size) ==
    LET num_set == {nums[i] : i \in 1..Len(nums)} IN
    \E num \in num_set :
        /\ \A other \in num_set : num <= other
        /\ Streak(num_set, num) >= size

\* lines 186-202: the streak of every number that starts a run is measured
\* and the answer is True as soon as one reaches board_size
_longest_consecutive(nums, size) ==
    LET num_set == {nums[i] : i \in 1..Len(nums)} IN
    \E num \in num_set :
        /\ (num - 1) \notin num_set
        /\ Streak(num_set, num) >= size

\* horizontal_state[row]: the columns of the player's points in that row,
\* in list order; vertical_state[column] likewise
RECURSIVE Group(_, _, _, _)
Group(pts, plist, key, horizontal) ==
    IF plist = <<>> THEN <<>>
    ELSE LET pt == pts[Head(plist)]
             rest == Group(pts, Tail(plist), key, horizontal)
         IN IF horizontal
            THEN (IF pt.row = key THEN <<pt.column>> \o rest ELSE rest)
            ELSE (IF pt.column = key THEN <<pt.row>> \o rest ELSE rest)

\* the win check looking at the rows only
_win_position_check_rows_only(dict, pts, size, player) ==
    LET player_points == PlayerPoints(dict, player)
        rows == {pts[player_points[i]].row : i \in 1..Len(player_points)}
    IN \E row \in rows :
           _longest_consecutive(Group(pts, player_points, row, TRUE), size)

_win_position_check(dict, pts, size, player) ==
    LET player_points == PlayerPoints(dict, player)
        rows == {pts[player_points[i]].row : i \in 1..Len(player_points)}
        columns == {pts[player_points[i]].column : i \in 1..Len(player_points)}
    IN \/ \E row \in rows :
            _longest_consecutive(Group(pts, player_points, row, TRUE), size)
       \/ \E column \in columns :
            _longest_consecutive(Group(pts, player_points, column, FALSE), size)

\* -------------------------------------------------------------- constructor
\* the constructor with a _set_turn that takes any player given
GameBoard_init_any_turn(size, plist, t) ==
    LET dict == AddPlayers(<<>>, plist, 1)
        failure ==
            IF Len(plist) < 2
            THEN (IF Len(plist) = 1 THEN "AlonePlayer" ELSE "NoPlayers")
            ELSE IF dict = <<>> THEN "DuplicatePlayer"
            ELSE "none"
    IN /\ ~constructed
       /\ outcome.status = "NONE"
       /\ UNCHANGED <<moves, calls>>
       /\ IF failure # "none"
          THEN /\ outcome' = Raise(failure)
               /\ UNCHANGED <<constructed, board_size, players, points, turn>>
          ELSE /\ constructed' = TRUE
               /\ board_size' = size
               /\ players' = dict
               /\ points' = NewPoints(size, Point(NoColor))
               /\ turn' \in (IF t = Null THEN PlayerSet(dict) ELSE {t})
               /\ outcome' = [status |-> "CREATED", player |-> Null, point |-> ForeignPoint]

\* the constructor without the case of the player who is alone
GameBoard_init_one_message(size, plist, t) ==
    LET dict == AddPlayers(<<>>, plist, 1)
        failure ==
            IF Len(plist) < 2 THEN "NoPlayers"
            ELSE IF dict = <<>> THEN "DuplicatePlayer"
            ELSE IF t # Null /\ ~_player_exist(dict, t) THEN "UnknownStartingPlayer"
            ELSE "none"
    IN /\ ~constructed
       /\ outcome.status = "NONE"
       /\ UNCHANGED <<moves, calls>>
       /\ IF failure # "none"
          THEN /\ outcome' = Raise(failure)
               /\ UNCHANGED <<constructed, board_size, players, points, turn>>
          ELSE /\ constructed' = TRUE
               /\ board_size' = size
               /\ players' = dict
               /\ points' = NewPoints(size, Point(NoColor))
               /\ turn' \in (IF t = Null THEN PlayerSet(dict) ELSE {t})
               /\ outcome' = [status |-> "CREATED", player |-> Null, point |-> ForeignPoint]

GameBoard_init(size, plist, t) ==
    LET dict == AddPlayers(<<>>, plist, 1)
        failure ==
            IF Len(plist) < 2
            THEN (IF Len(plist) = 1 THEN "AlonePlayer" ELSE "NoPlayers")
            ELSE IF dict = <<>> THEN "DuplicatePlayer"
            ELSE IF t # Null /\ ~_player_exist(dict, t) THEN "UnknownStartingPlayer"
            ELSE "none"
    IN /\ ~constructed
       /\ outcome.status = "NONE"
       /\ UNCHANGED <<moves, calls>>
       /\ IF failure # "none"
          THEN /\ outcome' = Raise(failure)
               /\ UNCHANGED <<constructed, board_size, players, points, turn>>
          ELSE /\ constructed' = TRUE
               /\ board_size' = size
               /\ players' = dict
               /\ points' = NewPoints(size, Point(NoColor))
               /\ turn' \in (IF t = Null THEN PlayerSet(dict) ELSE {t})
               /\ outcome' = [status |-> "CREATED", player |-> Null, point |-> ForeignPoint]

\* ------------------------------------------------------------- select_point
\* NextPlayer without the wrap to the first player: the last player keeps
\* the turn
NextPlayer_no_wrap(dict, player) ==
    LET next_player_index == index(dict, player) + 1
    IN IF next_player_index = Len(dict) + 1
       THEN player
       ELSE all_players(dict)[next_player_index]

\* lines 245-252: the player after `player` in registration order
NextPlayer(dict, player) ==
    LET next_player_index == index(dict, player) + 1
    IN IF next_player_index = Len(dict) + 1
       THEN all_players(dict)[1]
       ELSE all_players(dict)[next_player_index]

\* set_owner forgetting the assignment
set_owner_no_assignment(pts, point, player) == pts

\* Point.set_owner on the point of the board
set_owner(pts, point, player) == [pts EXCEPT ![point].owner = player]

\* the append made after the turn has moved on, to the list of the player
\* now on turn
AppendPoint_next_player(dict, player, point) ==
    [dict EXCEPT ![index(dict, NextPlayer(dict, player))].points = Append(@, point)]

\* self._players[player].append(point)
AppendPoint(dict, player, point) ==
    [dict EXCEPT ![index(dict, player)].points = Append(@, point)]

\* Status with the win check made for more than board_size points only
Status_prefilter_strict(dict, pts, size, player) ==
    IF Len(PlayerPoints(dict, player)) > size
    THEN IF _win_position_check(dict, pts, size, player) THEN WIN
         ELSE IF Cardinality({k \in DOMAIN pts : pts[k].owner # Null}) = size * size
              THEN DRAW
              ELSE NOTHING
    ELSE NOTHING

\* Status with the count of owned points taken for every move
Status_draw_unguarded(dict, pts, size, player) ==
    IF Len(PlayerPoints(dict, player)) >= size /\ _win_position_check(dict, pts, size, player)
    THEN WIN
    ELSE IF Cardinality({k \in DOMAIN pts : pts[k].owner # Null}) = size * size
         THEN DRAW
         ELSE NOTHING

\* the draw check counting the owned points before the move
Status_draw_one_early(dict, pts, size, player) ==
    IF Len(PlayerPoints(dict, player)) >= size
    THEN IF _win_position_check(dict, pts, size, player) THEN WIN
         ELSE IF Cardinality({k \in DOMAIN pts : pts[k].owner # Null}) = size * size - 1
              THEN DRAW
              ELSE NOTHING
    ELSE NOTHING

\* lines 255-265, evaluated on the board after the move
Status(dict, pts, size, player) ==
    IF Len(PlayerPoints(dict, player)) >= size
    THEN IF _win_position_check(dict, pts, size, player) THEN WIN
         ELSE IF Cardinality({k \in DOMAIN pts : pts[k].owner # Null}) = size * size
              THEN DRAW
              ELSE NOTHING
    ELSE NOTHING

\* Validate with the checks of the point ahead of the checks of the player
Validate_point_first(dict, pts, t, point, player) ==
    IF point \notin DOMAIN pts THEN "CellNotOnBoard"
    ELSE IF pts[point].owner # Null THEN "CellAlreadyOwned"
    ELSE IF player # Null /\ ~_player_exist(dict, player) THEN "UnknownPlayer"
    ELSE IF player # Null /\ player # t THEN "NotYourTurn"
    ELSE "none"

\* Validate without the check of the point's owner
Validate_no_owner_check(dict, pts, t, point, player) ==
    IF player # Null /\ ~_player_exist(dict, player) THEN "UnknownPlayer"
    ELSE IF player # Null /\ player # t THEN "NotYourTurn"
    ELSE IF point \notin DOMAIN pts THEN "CellNotOnBoard"
    ELSE "none"

\* lines 230-243: the failure raised, "none" when the call is accepted
Validate(dict, pts, t, point, player) ==
    IF player # Null /\ ~_player_exist(dict, player) THEN "UnknownPlayer"
    ELSE IF player # Null /\ player # t THEN "NotYourTurn"
    ELSE IF point \notin DOMAIN pts THEN "CellNotOnBoard"
    ELSE IF pts[point].owner # Null THEN "CellAlreadyOwned"
    ELSE "none"

\* select_point advancing the turn before the point is validated
select_point_turn_first(point, player) ==
    LET acting == IF player = Null THEN turn ELSE player
        failure == Validate(players, points, turn, point, player)
    IN /\ constructed
       /\ calls' = calls + 1
       /\ IF failure \in {"UnknownPlayer", "NotYourTurn"}
          THEN /\ outcome' = Raise(failure)
               /\ UNCHANGED <<constructed, board_size, players, points, turn, moves>>
          ELSE IF failure # "none"
          THEN /\ outcome' = Raise(failure)
               /\ turn' = NextPlayer(players, acting)
               /\ UNCHANGED <<constructed, board_size, players, points, moves>>
          ELSE LET new_points == set_owner(points, point, acting)
                   new_players == AppendPoint(players, acting, point)
               IN /\ turn' = NextPlayer(players, acting)
                  /\ points' = new_points
                  /\ players' = new_players
                  /\ outcome' = GameBoard_Event(
                         Status(new_players, new_points, board_size, acting),
                         acting, point)
                  /\ moves' = moves + 1
                  /\ UNCHANGED <<constructed, board_size>>

\* select_point building the event from self.turn after the rotation
select_point_event_turn(point, player) ==
    LET acting == IF player = Null THEN turn ELSE player
        failure == Validate(players, points, turn, point, player)
    IN /\ constructed
       /\ calls' = calls + 1
       /\ IF failure # "none"
          THEN /\ outcome' = Raise(failure)
               /\ UNCHANGED <<constructed, board_size, players, points, turn, moves>>
          ELSE LET new_points == set_owner(points, point, acting)
                   new_players == AppendPoint(players, acting, point)
               IN /\ turn' = NextPlayer(players, acting)
                  /\ points' = new_points
                  /\ players' = new_players
                  /\ outcome' = GameBoard_Event(
                         Status(new_players, new_points, board_size, acting),
                         NextPlayer(players, acting), point)
                  /\ moves' = moves + 1
                  /\ UNCHANGED <<constructed, board_size>>

select_point(point, player) ==
    LET acting == IF player = Null THEN turn ELSE player
        failure == Validate(players, points, turn, point, player)
    IN /\ constructed
       /\ calls' = calls + 1
       /\ IF failure # "none"
          THEN /\ outcome' = Raise(failure)
               /\ UNCHANGED <<constructed, board_size, players, points, turn, moves>>
          ELSE LET new_points == set_owner(points, point, acting)
                   new_players == AppendPoint(players, acting, point)
               IN /\ turn' = NextPlayer(players, acting)
                  /\ points' = new_points
                  /\ players' = new_players
                  /\ outcome' = GameBoard_Event(
                         Status(new_players, new_points, board_size, acting),
                         acting, point)
                  /\ moves' = moves + 1
                  /\ UNCHANGED <<constructed, board_size>>

\* ----------------------------------------------------------------- listener
\* the listener restarting with the players and the points of the backup
\* but not with its turn
listener_keep_turn(point) ==
    LET coloured == [points EXCEPT ![point].icon_color = color(turn)]
        failure == Validate(players, coloured, turn, point, Null)
        player == turn
        new_points == set_owner(coloured, point, player)
        new_players == AppendPoint(players, player, point)
        status == Status(new_players, new_points, board_size, player)
        restarted == deepcopy(game_board_backup)
    IN /\ constructed
       /\ UNCHANGED <<constructed, game_board_backup>>
       /\ IF failure # "none"
          THEN /\ outcome' = Raise(failure)
               /\ points' = coloured
               /\ calls' = calls + 1
               /\ UNCHANGED <<board_size, players, turn, moves>>
          ELSE /\ outcome' = GameBoard_Event(status, player, point)
               /\ IF status = NOTHING
                  THEN /\ points' = new_points
                       /\ players' = new_players
                       /\ turn' = NextPlayer(players, player)
                       /\ moves' = moves + 1
                       /\ calls' = calls + 1
                       /\ UNCHANGED board_size
                  ELSE /\ board_size' = restarted.board_size
                       /\ players' = restarted.players
                       /\ points' = restarted.points
                       /\ turn' = NextPlayer(players, player)
                       /\ moves' = 0
                       /\ calls' = 0

\* lines 276-313, the click of a point of the current board: the icon takes
\* the colour of the player on turn (line 279), select_point is called
\* without a player (line 281; an exception it raises ends the handler),
\* and on WIN or DRAW game_board becomes a copy of the backup (line 306),
\* a board on which no call has been made
listener(point) ==
    LET coloured == [points EXCEPT ![point].icon_color = color(turn)]
        failure == Validate(players, coloured, turn, point, Null)
        player == turn
        new_points == set_owner(coloured, point, player)
        new_players == AppendPoint(players, player, point)
        status == Status(new_players, new_points, board_size, player)
        restarted == deepcopy(game_board_backup)
    IN /\ constructed
       /\ UNCHANGED <<constructed, game_board_backup>>
       /\ IF failure # "none"
          THEN /\ outcome' = Raise(failure)
               /\ points' = coloured
               /\ calls' = calls + 1
               /\ UNCHANGED <<board_size, players, turn, moves>>
          ELSE /\ outcome' = GameBoard_Event(status, player, point)
               /\ IF status = NOTHING
                  THEN /\ points' = new_points
                       /\ players' = new_players
                       /\ turn' = NextPlayer(players, player)
                       /\ moves' = moves + 1
                       /\ calls' = calls + 1
                       /\ UNCHANGED board_size
                  ELSE /\ board_size' = restarted.board_size
                       /\ players' = restarted.players
                       /\ points' = restarted.points
                       /\ turn' = restarted.turn
                       /\ moves' = 0
                       /\ calls' = 0

\* ---------------------------------------------------------------- get_point
\* self._points[row * self.board_size + column]: the point at that position of
\* the list, a negative position counting from the end of the list as Python
\* lists do; ForeignPoint (no point) when the list raises IndexError
get_point_index(pts, size, row, column) ==
    LET i == row * size + column
        n == Len(pts)
    IN IF 0 <= i /\ i < n THEN i + 1
       ELSE IF (0 - n) <= i /\ i < 0 THEN n + i + 1
       ELSE ForeignPoint

\* get_point(row, column): the call and what it returned are kept in outcome
get_point(row, column) ==
    LET point == get_point_index(points, board_size, row, column)
    IN /\ constructed
       /\ outcome' = [status |-> IF point = ForeignPoint THEN "OutOfRange" ELSE "POINT",
                      player |-> Null, point |-> point,
                      row |-> row, column |-> column]
       /\ UNCHANGED <<constructed, board_size, players, points, turn, moves, calls>>

\* ----------------------------------------------------------- inputs, specs
\* the first k Player objects, in order
FirstPlayers(k) == [i \in 1..k |-> i]

\* player lists handed to the constructor: 0..MaxPlayers distinct players,
\* the same object listed twice, and two objects with one name
PlayerLists ==
    {FirstPlayers(k) : k \in 0..MaxPlayers}
        \cup {<<1, 1>>, <<1, 2, 1>>, <<1, Twin>>}

TurnArgs == {Null, 1, 2, Stranger}

\* the acting player handed to select_point: omitted, a registered player
\* or a player the board does not know
PlayerArgs(dict) == {Null, Stranger} \cup PlayerSet(dict)

PointArgs(size) == {ForeignPoint} \cup 1..(size * size)

Init ==
    /\ constructed = FALSE
    /\ board_size = 0
    /\ players = <<>>
    /\ points = <<>>
    /\ turn = Null
    /\ outcome = [status |-> "NONE", player |-> Null, point |-> ForeignPoint]
    /\ moves = 0
    /\ calls = 0
    /\ game_board_backup = Null

Create ==
    \E size \in 1..MaxBoardSize, plist \in PlayerLists, t \in TurnArgs :
        /\ GameBoard_init(size, plist, t)
        /\ UNCHANGED game_board_backup

Select ==
    \E point \in PointArgs(board_size), player \in PlayerArgs(players) :
        /\ calls < MaxCalls
        /\ select_point(point, player)
        /\ UNCHANGED game_board_backup

Next == Create \/ Select

Spec == Init /\ [][Next]_vars

\* The first calls made on a board, with every point and every player.
SelectFirst ==
    \E point \in PointArgs(board_size), player \in PlayerArgs(players) :
        /\ calls < MaxTries
        /\ select_point(point, player)
        /\ UNCHANGED game_board_backup

NextValidate == Create \/ SelectFirst

SpecValidate == Init /\ [][NextValidate]_vars

\* The shipped configuration (lines 316-322): board of size 3 for radin and
\* ali, starting player chosen at random.
Init3 ==
    /\ constructed = TRUE
    /\ board_size = game_board_size
    /\ players = AddPlayers(<<>>, <<radin, ali>>, 1)
    /\ points = NewPoints(game_board_size, point_sample)
    /\ turn \in {radin, ali}
    /\ outcome = [status |-> "CREATED", player |-> Null, point |-> ForeignPoint]
    /\ moves = 0
    /\ calls = 0
    /\ game_board_backup = deepcopy(game_board)

\* One game on that board: the players click free points, the player on
\* turn acting (the listener passes no player), until the board returns WIN
\* or DRAW; the listener then replaces the board (line 306).
Select3 ==
    \E point \in DOMAIN points :
        /\ outcome.status \notin {WIN, DRAW}
        /\ points[point].owner = Null
        /\ select_point(point, Null)
        /\ UNCHANGED game_board_backup

Next3 == Select3

Spec3 == Init3 /\ [][Next3]_vars

\* The script at play: the points that can still be taken are clicked, game
\* after game.
Click ==
    \E point \in DOMAIN points :
        /\ points[point].owner = Null
        /\ listener(point)

NextGame == Click

SpecGame == Init3 /\ [][NextGame]_vars

\* The script with every point clicked, the owned ones too, at most
\* MaxCalls times.
ClickAny ==
    \E point \in DOMAIN points :
        /\ calls < MaxCalls
        /\ listener(point)

NextGui == ClickAny

SpecGui == Init3 /\ [][NextGui]_vars

\* rows and columns handed to get_point: in range, negative and too large
LookupArgs == (0 - (MaxBoardSize + 1))..(MaxBoardSize + 1)

Lookup ==
    \E row \in LookupArgs, column \in LookupArgs :
        /\ get_point(row, column)
        /\ UNCHANGED game_board_backup

NextLookup == Create \/ Lookup

\* boards of every size and their lookups
SpecLookup == Init /\ [][NextLookup]_vars

\* lists of integers handed to _longest_consecutive: empty, with repeated
\* values, with a negative number, with several runs
NumArgs == (0 - 1)..MaxNum

NumLists == UNION {[1..n -> NumArgs] : n \in 0..MaxLen}

\* the board of radin and ali in every size, and a list of integers at hand
InitConsecutive ==
    /\ constructed = TRUE
    /\ board_size \in 1..(MaxBoardSize + 1)
    /\ players = AddPlayers(<<>>, <<radin, ali>>, 1)
    /\ points = NewPoints(board_size, point_sample)
    /\ turn \in {radin, ali}
    /\ outcome \in {[status |-> "NUMS", player |-> Null, point |-> ForeignPoint,
                      nums |-> nums, result |-> FALSE] : nums \in NumLists}
    /\ moves = 0
    /\ calls = 0
    /\ game_board_backup = deepcopy(game_board)

Consecutive ==
    /\ outcome.status = "NUMS"
    /\ outcome' = [outcome EXCEPT !.status = "CONSECUTIVE",
                                  !.result = _longest_consecutive(outcome.nums, board_size)]
    /\ UNCHANGED <<constructed, board_size, players, points, turn, moves, calls,
                   game_board_backup>>

NextConsecutive == Consecutive

\* _longest_consecutive applied to every list
SpecConsecutive == InitConsecutive /\ [][NextConsecutive]_vars

TypeOK ==
    /\ constructed \in BOOLEAN
    /\ moves \in Nat
    /\ calls \in Nat
    /\ moves <= calls
    /\ outcome.status \in
           {"NONE", "CREATED", "POINT", "OutOfRange", "NUMS", "CONSECUTIVE"}
               \cup EventStatuses \cup SelectFailures \cup InitFailures

\* ------------------------------------------------------------------ claims
\* a step in which select_point returned an event
Succeeded == moves' = moves + 1

Owned(pts) == {k \in DOMAIN pts : pts[k].owner # Null}

\* C1: a select_point call that fails (unknown player, player not on turn,
\* point not on the board, point already owned) leaves every point's owner,
\* every player's list of points and the turn as they were.
C1_FailedSelectChangesNothing ==
    [][outcome'.status \in SelectFailures => UNCHANGED <<points, players, turn>>]_vars

\* a call has failed on a board on which points are owned
C1_Witness ==
    /\ outcome.status \in SelectFailures
    /\ Owned(points) # {}

\* C2: the owner of an owned point never changes; every select_point on an
\* owned point fails, and fails as already owned when the acting player is
\* omitted or is the player on turn.
C2_OwnerNeverChanges ==
    /\ [][\A k \in DOMAIN points :
             points[k].owner # Null => points'[k].owner = points[k].owner]_vars
    /\ [](\A k \in DOMAIN points, player \in PlayerArgs(players) :
             points[k].owner # Null =>
                 LET failure == Validate(players, points, turn, k, player)
                 IN /\ failure \in SelectFailures
                    /\ player \in {Null, turn} => failure = "CellAlreadyOwned")

\* a select_point on an owned point has been refused
C2_Witness ==
    /\ outcome.status = "CellAlreadyOwned"
    /\ Owned(points) # {}

\* C3: a successful select_point is made by the player on turn and gives the
\* turn to the player after it in registration order, the first player after
\* the last, also when it returns WIN or DRAW; the next player to move is
\* never the one who just moved.
C3_TurnRotation ==
    [][Succeeded =>
          LET order == all_players(players)
              i == CHOOSE j \in 1..Len(order) : order[j] = turn
          IN /\ outcome'.player = turn
             /\ turn' = order[(i % Len(order)) + 1]
             /\ turn' # outcome'.player]_vars

\* the last of three players has made a move that returned WIN or DRAW and
\* the turn is back at the first player
C3_Witness ==
    /\ Len(players) = 3
    /\ outcome.status \in {WIN, DRAW}
    /\ outcome.player = players[3].player
    /\ turn = players[1].player

\* the player owns every point of one row, or every point of one column
FullLine(pts, size, player) ==
    \/ \E row \in 0..(size - 1) :
          \A column \in 0..(size - 1) : pts[PointAt(size, row, column)].owner = player
    \/ \E column \in 0..(size - 1) :
          \A row \in 0..(size - 1) : pts[PointAt(size, row, column)].owner = player

\* the player owns every point of one of the two diagonals
FullDiagonal(pts, size, player) ==
    \/ \A d \in 0..(size - 1) : pts[PointAt(size, d, d)].owner = player
    \/ \A d \in 0..(size - 1) : pts[PointAt(size, d, size - 1 - d)].owner = player

\* C4: the event of a successful select_point is WIN exactly when the player
\* who moved owns a full row or a full column; on a board of size 2 or more
\* a full diagonal without a full row or column is never a WIN.
C4_WinIffFullLine ==
    outcome.status \in EventStatuses =>
        /\ outcome.status = WIN <=> FullLine(points, board_size, outcome.player)
        /\ ( /\ board_size >= 2
             /\ FullDiagonal(points, board_size, outcome.player)
             /\ ~FullLine(points, board_size, outcome.player) )
               => outcome.status # WIN

\* the player who moved owns a diagonal and no full row or column
C4_Witness ==
    /\ outcome.status \in EventStatuses
    /\ board_size >= 2
    /\ FullDiagonal(points, board_size, outcome.player)
    /\ ~FullLine(points, board_size, outcome.player)

\* C5 (as claimed): the event of a successful select_point is DRAW exactly
\* when all board_size^2 points are owned after the move and the move is no
\* WIN, for every board size and every number of players.
C5_DrawIffBoardFull ==
    outcome.status \in EventStatuses =>
        ( outcome.status = DRAW <=>
            ( /\ Cardinality(Owned(points)) = board_size * board_size
              /\ outcome.status # WIN ) )

\* C6: two players on the board of size 3: as long as no player owns a full
\* row or column, moves 1 to 8 return NOTHING and move 9 returns DRAW.
C6_NinthMoveDraws ==
    ( /\ outcome.status \in EventStatuses
      /\ \A i \in 1..Len(players) : ~FullLine(points, board_size, players[i].player) )
        => /\ moves \in 1..8 => outcome.status = NOTHING
           /\ moves = 9 => outcome.status = DRAW

\* the board has been filled without a full row or column
C6_Witness ==
    /\ moves = 9
    /\ outcome.status = DRAW
    /\ \A i \in 1..Len(players) : ~FullLine(points, board_size, players[i].player)

RECURSIVE SumLen(_, _)
SumLen(dict, i) ==
    IF i > Len(dict) THEN 0 ELSE Len(dict[i].points) + SumLen(dict, i + 1)

\* C7: after k successful select_point calls exactly k points are owned and
\* the players' lists hold k points in all, whatever calls failed in between.
C7_OwnedCountIsMoves ==
    constructed =>
        /\ Cardinality(Owned(points)) = moves
        /\ SumLen(players, 1) = moves

\* a call has failed after two successful ones
C7_Witness ==
    /\ moves >= 2
    /\ outcome.status \in SelectFailures

\* C8: a point is in a player's list exactly when that player is its owner;
\* no point is twice in a list or in the lists of two players, and every
\* owned point is in exactly one list.
C8_ListsMatchOwners ==
    /\ \A k \in DOMAIN points :
          LET holders == {i \in 1..Len(players) :
                             \E n \in 1..Len(players[i].points) : players[i].points[n] = k}
          IN /\ holders = {i \in 1..Len(players) : points[k].owner = players[i].player}
             /\ Cardinality(holders) <= 1
             /\ points[k].owner # Null => Cardinality(holders) = 1
    /\ \A i \in 1..Len(players) :
          \A m, n \in 1..Len(players[i].points) :
              players[i].points[m] = players[i].points[n] => m = n

\* two players own points
C8_Witness ==
    /\ moves >= 3
    /\ \E i, j \in 1..Len(players) :
          i # j /\ players[i].points # <<>> /\ players[j].points # <<>>

\* C9: the event of a successful select_point carries the player who was on
\* turn before the call and the point passed in (the one point the call has
\* changed, free before), which that player now owns;
\* when radin has taken (0,0), (0,1), (0,2) with moves 1, 3 and 5 of the
\* board of size 3, move 5 returns WIN, radin, (0,2).
C9_EventCarriesMove ==
    /\ [][Succeeded =>
             LET point == outcome'.point IN
             /\ outcome'.status \in EventStatuses
             /\ outcome'.player = turn
             /\ point \in DOMAIN points
             /\ points[point].owner = Null
             /\ points'[point].owner = turn
             /\ \A k \in DOMAIN points : k # point => points'[k] = points[k]]_vars
    /\ []( ( /\ moves = 5
             /\ players[1].player = radin
             /\ players[1].points =
                    << PointAt(game_board_size, 0, 0), PointAt(game_board_size, 0, 1),
                       PointAt(game_board_size, 0, 2) >> )
           => outcome = GameBoard_Event(WIN, radin, PointAt(game_board_size, 0, 2)) )

\* radin has completed row 0 with move 5
C9_Witness ==
    /\ moves = 5
    /\ players[1].points =
           << PointAt(game_board_size, 0, 0), PointAt(game_board_size, 0, 1),
              PointAt(game_board_size, 0, 2) >>
    /\ outcome.status = WIN
    /\ points[PointAt(game_board_size, 0, 2)].owner = radin

\* C10 (as claimed): no board has two registered players with the same name:
\* the constructor refuses a list in which a name occurs twice.
C10_NoTwoPlayersOfOneName ==
    constructed =>
        \A i, j \in 1..Len(players) :
            PlayerName(players[i].player) = PlayerName(players[j].player) => i = j
\* C11 (as claimed): get_point(row, column) fails whenever row or column is
\* outside 0..board_size-1, and a point it returns is the point of that row
\* and column.
C11_GetPointChecksRange ==
    outcome.status \in {"POINT", "OutOfRange"} =>
        /\ ( \/ outcome.row \notin 0..(board_size - 1)
             \/ outcome.column \notin 0..(board_size - 1) )
               => outcome.status = "OutOfRange"
        /\ outcome.status = "POINT" =>
               /\ points[outcome.point].row = outcome.row
               /\ points[outcome.point].column = outcome.column
\* C12: the constructor fails when the starting player given is not among
\* the players given; it makes that player the turn when it is among them,
\* and one of the players given when none is given; so the turn of a board
\* is always one of its registered players.
C12_TurnIsRegistered ==
    /\ [][~constructed =>
             \A size \in 1..MaxBoardSize, plist \in PlayerLists, t \in TurnArgs :
                 GameBoard_init(size, plist, t) =>
                     LET given == {plist[i] : i \in 1..Len(plist)} IN
                     /\ (t # Null /\ t \notin given) =>
                            (~constructed' /\ outcome'.status \in InitFailures)
                     /\ (constructed' /\ t # Null) => turn' = t
                     /\ (constructed' /\ t = Null) => turn' \in given]_vars
    /\ [](constructed => turn \in PlayerSet(players))

\* a starting player who is not among the players has been refused
C12_Witness ==
    /\ ~constructed
    /\ outcome.status = "UnknownStartingPlayer"

\* C13: the constructor fails for fewer than 2 players and leaves no board;
\* the failure for one player is not the failure for no player, whatever
\* starting player is given.
C13_TooFewPlayers ==
    [][~constructed =>
          \A size \in 1..MaxBoardSize, plist \in PlayerLists, t \in TurnArgs :
              (GameBoard_init(size, plist, t) /\ Len(plist) < 2) =>
                  /\ ~constructed'
                  /\ points' = <<>> /\ players' = <<>>
                  /\ outcome'.status = (IF Len(plist) = 1 THEN "AlonePlayer" ELSE "NoPlayers")
                  /\ Len(plist) = 1 => outcome'.status # Raise("NoPlayers").status]_vars

\* the constructor has refused a player who is alone
C13_Witness ==
    /\ ~constructed
    /\ outcome.status = "AlonePlayer"
\* the rules a call of select_point breaks, each taken alone
Broken(point, player) ==
    (IF player # Null /\ player \notin PlayerSet(players) THEN {"UnknownPlayer"} ELSE {})
    \cup (IF player # Null /\ player # turn THEN {"NotYourTurn"} ELSE {})
    \cup (IF point \notin 1..(board_size * board_size) THEN {"CellNotOnBoard"} ELSE {})
    \cup (IF point \in 1..(board_size * board_size) /\ points[point].owner # Null
          THEN {"CellAlreadyOwned"} ELSE {})

RuleOrder == <<"UnknownPlayer", "NotYourTurn", "CellNotOnBoard", "CellAlreadyOwned">>

\* C14: a call of select_point that breaks several rules fails with the
\* first broken one in the order UnknownPlayer, NotYourTurn, CellNotOnBoard,
\* CellAlreadyOwned, and a call that breaks none is accepted; with the
\* player omitted only the two rules of the point can be broken.
C14_FirstBrokenRule ==
    constructed =>
        \A point \in PointArgs(board_size), player \in PlayerArgs(players) :
            LET broken == Broken(point, player)
                failure == Validate(players, points, turn, point, player)
            IN /\ broken = {} => failure = "none"
               /\ broken # {} =>
                      \E i \in DOMAIN RuleOrder : /\ RuleOrder[i] \in broken
                                       /\ \A j \in 1..(i - 1) : RuleOrder[j] \notin broken
                                       /\ failure = RuleOrder[i]
               /\ player = Null => broken \subseteq {"CellNotOnBoard", "CellAlreadyOwned"}

\* a call has failed with NotYourTurn on a board where a registered player
\* who is not on turn and selects an owned point breaks two rules and gets
\* NotYourTurn
C14_Witness ==
    /\ constructed
    /\ outcome.status = "NotYourTurn"
    /\ \E point \in PointArgs(board_size), player \in PlayerSet(players) :
           /\ Broken(point, player) = {"NotYourTurn", "CellAlreadyOwned"}
           /\ Validate(players, points, turn, point, player) = "NotYourTurn"

\* C15: a successful select_point that leaves the acting player with fewer
\* than board_size points returns NOTHING, also on a board that is full.
C15_FewPointsIsNothing ==
    (outcome.status \in EventStatuses
        /\ Len(PlayerPoints(players, outcome.player)) < board_size)
            => outcome.status = NOTHING

\* the move that filled the board returned NOTHING
C15_Witness ==
    /\ outcome.status = NOTHING
    /\ Len(PlayerPoints(players, outcome.player)) < board_size
    /\ \A k \in DOMAIN points : points[k].owner # Null
\* C16: on a board of size board_size >= 1, _longest_consecutive(nums) is
\* True exactly when nums holds k, k+1, ..., k+board_size-1 for some k,
\* for the empty list, lists with repeated values and lists of several runs.
C16_ConsecutiveIffRun ==
    outcome.status = "CONSECUTIVE" =>
        LET nums == outcome.nums
            held == {nums[i] : i \in 1..Len(nums)}
        IN outcome.result <=>
               \E k \in NumArgs : \A j \in 0..(board_size - 1) : (k + j) \in held

\* True was returned for a list with a repeated value and two runs, the
\* second of which is the long one
C16_Witness ==
    /\ outcome.status = "CONSECUTIVE"
    /\ outcome.result
    /\ board_size > 1
    /\ \E i, j \in 1..Len(outcome.nums) : i # j /\ outcome.nums[i] = outcome.nums[j]
    /\ LET held == {outcome.nums[i] : i \in 1..Len(outcome.nums)}
           least == CHOOSE num \in held : \A other \in held : num <= other
       IN (least + 1) \notin held
\* C17: when the listener gets WIN or DRAW from select_point, game_board
\* becomes a copy of the backup: no point is owned, every player's list is
\* empty and the turn is the starting turn of the first board; the backup
\* is the first board and never changes, so every restart gives that board.
C17_RestartFromBackup ==
    /\ game_board_backup = game_board
    /\ [][game_board_backup' = game_board_backup]_vars
    /\ [][outcome'.status \in {WIN, DRAW} =>
             /\ Owned(points') = {}
             /\ \A i \in DOMAIN players' : players'[i].points = <<>>
             /\ turn' = game_board_backup.turn
             /\ game_board' = game_board_backup]_vars

\* the player who started has won and is on turn again on the new board
C17_Witness ==
    /\ outcome.status = WIN
    /\ outcome.player = turn
    /\ Owned(points) = {}

\* C18: after any clicks handled by the listener, on owned points too, the
\* icon of every owned point has its owner's colour and the icon of every
\* other point the colour of the sample.
C18_IconColorIsOwnerColor ==
    \A k \in DOMAIN points :
        points[k].icon_color =
            (IF points[k].owner = Null THEN point_sample.icon_color
             ELSE color(points[k].owner))

\* C19: in the script (radin and ali, board of size 3) a board returns WIN
\* or DRAW at its 9th successful select at the latest; the step that
\* returns WIN or DRAW puts a new board in its place, so that no board holds
\* a full line or is full when a point of it is clicked.
C19_TerminalByNinthSelect ==
    /\ [](moves < game_board_size * game_board_size)
    /\ [][moves = game_board_size * game_board_size - 1 =>
             outcome'.status \in {WIN, DRAW}]_vars
    /\ [][outcome'.status \in {WIN, DRAW} =>
             (moves' = 0 /\ calls' = 0 /\ Owned(points') = {})]_vars
    /\ []( /\ Owned(points) # DOMAIN points
           /\ \A player \in PlayerSet(players) : ~FullLine(points, board_size, player) )

\* the 9th select of a board has returned DRAW and a new board is in place
C19_Witness ==
    /\ outcome.status = DRAW
    /\ moves = 0
    /\ Owned(points) = {}
====
